---- MODULE Spec2Model ----
(***************************************************************************)
(* Model of the MLflow service supervisor (src/src/main.py) together with  *)
(* the settings it reads (src/src/config/settings.py).                     *)
(*                                                                         *)
(* The main thread is a program counter `pc` walking through main(),       *)
(* upgrade_database_schema(), start_mlflow_server() and                    *)
(* wait_for_mlflow_server().  The signal handler handle_termination runs   *)
(* on the main thread: when a signal is delivered the main thread's        *)
(* position is replaced by the handler's, and because the handler always   *)
(* ends in sys.exit(0) the interrupted code is never resumed.  The GC loop *)
(* and the two output readers are daemon threads with positions of their   *)
(* own.  The supervised child, the other listener on the port and the      *)
(* outcome of every subprocess are the environment.                        *)
(*                                                                         *)
(* The credential manager (src/src/utils/gcp_auth.py) is never called by   *)
(* main.py.  Its state is part of the same state, untouched while main     *)
(* runs, and SpecAuth is the specification of the calls made on it.        *)
(***************************************************************************)
EXTENDS Integers, Sequences, FiniteSets, TLC

VARIABLES
  settings,          \* the MLflowServiceSettings instance
  env,               \* what the process finds around it: platform, os.environ, the port
  pc,                \* position of the main thread
  mlog,              \* calls the main thread has made, in order
  hlog,              \* steps handle_termination has made, in order
  handlersInstalled, \* signal.signal(...) has been called for SIGINT and SIGTERM
  sigAt,             \* position of the main thread when the signal was delivered
  sigChild,          \* state of the child when the signal was delivered
  mlflow_process,    \* the module global: None or the Popen object
  child,             \* the child OS process: "none", "running", "exited"
  childListening,    \* the child has bound the port
  sigs,              \* signals delivered to the child, in order, with their sender
  spawnCount,        \* number of child processes created by Popen
  upgradeOutcome,    \* what `mlflow db upgrade` did (local to upgrade_database_schema)
  upgradeResult,     \* return value of upgrade_database_schema: None, "True", "False"
  startResult,       \* return value of start_mlflow_server: None, "True", "False"
  waitResult,        \* how wait_for_mlflow_server returned: None, "ready" (True),
                     \* "child_exited" (False), "timeout" (False)
  polls,             \* child-exit checks made by wait_for_mlflow_server
  probes,            \* port probes made by wait_for_mlflow_server
  polledChild,       \* what the last child-exit check saw
  connects,          \* the probes made so far: which probe, and the host it connected to
  gcStop,            \* _gc_stop_event
  gcpc,              \* position of the GC thread
  gcFailures,        \* GC cycles that failed so far
  lateLaunches,      \* GC cycles launched while the stop event was set
  sleptAfterStop,    \* the GC thread slept a whole interval with the stop event set
  readers,           \* the stdout and stderr reader threads
  exitCode,          \* exit code of the supervisor process, -1 while it runs
  exitVia,           \* how the supervisor process ended
  disk,              \* the file paths that exist
  temp_credentials_file,  \* GCPAuthManager.temp_credentials_file: None or a path
  mkstempCount,      \* temporary files made by tempfile.mkstemp for the manager
  lastCall,          \* the last call on the manager and what it did
  artifactRoots,     \* values of settings.artifact_root computed so far
  portsUsed,         \* the port each component has taken from the settings
  lastLine           \* the child output line a reader has read, and the level
                     \* it was logged at

vars == <<settings, env, pc, mlog, hlog, handlersInstalled, sigAt, sigChild,
          mlflow_process, child, childListening, sigs, spawnCount,
          upgradeOutcome, upgradeResult, startResult, waitResult, polls, probes,
          polledChild, connects, gcStop, gcpc, gcFailures, lateLaunches, sleptAfterStop,
          readers, exitCode, exitVia, disk, temp_credentials_file, mkstempCount,
          lastCall, artifactRoots, portsUsed, lastLine>>

None == "None"

\* a Python bool held in a variable that starts as None
Py(b) == IF b THEN "True" ELSE "False"

(***************************************************************************)
(* Text.  A Python str is a sequence of one-character strings; an          *)
(* Optional[str] is <<>> (None) or <<s>>.                                  *)
(***************************************************************************)
NoStr == <<>>
Some(s) == <<s>>

Whitespace == {" "}
QuoteChars == {"'", "\""}

RECURSIVE LStrip(_, _)
LStrip(s, cs) ==
  IF s # <<>> /\ Head(s) \in cs THEN LStrip(Tail(s), cs) ELSE s

RECURSIVE RStrip(_, _)
RStrip(s, cs) ==
  IF s # <<>> /\ s[Len(s)] \in cs THEN RStrip(SubSeq(s, 1, Len(s) - 1), cs) ELSE s

\* str.strip(chars)
StrStrip(s, cs) == RStrip(LStrip(s, cs), cs)

\* the f-string of settings.py lines 77-80; the discrete fields are required
ComposedUri(st) ==
  <<"postgresql+psycopg2://">> \o st.POSTGRES_USER \o <<":">> \o st.POSTGRES_PASSWORD
    \o <<"@">> \o st.POSTGRES_HOST \o <<":">> \o st.POSTGRES_PORT \o <<"/">> \o st.POSTGRES_DB

\* MLflowServiceSettings.backend_store_uri
backend_store_uri(st) ==
  LET cs == st.MLFLOW_POSTGRES_CONNECTION_STRING IN
  IF cs # NoStr /\ cs[1] # <<>> /\ StrStrip(cs[1], Whitespace) # <<>>
  THEN StrStrip(StrStrip(cs[1], Whitespace), QuoteChars)
  ELSE ComposedUri(st)

\* a caller that takes every URI as configured
UriConfiguredAlways(uri) == TRUE

\* main.py 250, 344: `if not backend_store_uri` is the test for the empty string
UriConfigured(uri) == uri # <<>>

(***************************************************************************)
(* The port probe.  connect_ex on an AF_INET socket: a host that is no     *)
(* IPv4 address ("::") makes the address lookup raise; the wildcard        *)
(* address is connectable as loopback on Linux and not connectable at all  *)
(* on Windows; any other host reaches whoever listens on the port.         *)
(***************************************************************************)
Hosts == {"0.0.0.0", "::", "127.0.0.1"}
Platforms == {"linux", "win32"}

Listening == env.otherListener \/ childListening

ConnectEx(host) ==
  CASE host = "::" -> "raise"
    [] host = "0.0.0.0" ->
         IF env.platform = "win32" THEN "error"
         ELSE IF Listening THEN "ok" ELSE "error"
    [] OTHER -> IF Listening THEN "ok" ELSE "error"

\* is_port_in_use(port, host), when connect_ex does not raise
is_port_in_use(host) == ConnectEx(host) = "ok"

\* check_host of wait_for_mlflow_server
check_host(host) == IF host = "0.0.0.0" THEN "127.0.0.1" ELSE host


(***************************************************************************)
(* The schema migration.  The text of stdout and stderr is a sequence of   *)
(* words; `pat in text.lower()` is the search for a run of lowered words.  *)
(***************************************************************************)
Lower(w) ==
  CASE w = "Does" -> "does"
    [] w = "OperationalError" -> "operationalerror"
    [] w = "Upgraded" -> "upgraded"
    [] w = "ERROR" -> "error"
    [] w = "CRITICAL" -> "critical"
    [] w = "WARNING" -> "warning"
    [] w = "Traceback (most recent call last):" -> "traceback (most recent call last):"
    [] OTHER -> w

LowerText(t) == [i \in 1..Len(t) |-> Lower(t[i])]

Contains(t, pat) ==
  \E i \in 0..(Len(t) - Len(pat)) : SubSeq(t, i + 1, i + Len(pat)) = pat

Stdouts == {<<>>, <<"Upgraded">>, <<"INFO", "done">>}
Stderrs == {<<>>, <<"relation", "Does", "not", "exist">>, <<"OperationalError">>,
            <<"permission", "denied">>}

NoOutcome == [kind |-> "none", returncode |-> 0, stdout |-> <<>>, stderr |-> <<>>]

\* what subprocess.run([... 'db', 'upgrade', uri], timeout=60) can do
UpgradeOutcomes ==
  [kind : {"exit"}, returncode : {0, 1}, stdout : Stdouts, stderr : Stderrs]
    \cup {[NoOutcome EXCEPT !.kind = "timeout"], [NoOutcome EXCEPT !.kind = "exception"]}

\* a migrator that also fails open on an unexpected exception
UpgradeDecisionFailOpen(o) ==
  CASE o.kind \in {"timeout", "exception"} -> TRUE
    [] OTHER ->
         IF o.returncode = 0 THEN TRUE
         ELSE LET lower_err == LowerText(o.stderr) IN
              Contains(lower_err, <<"does", "not", "exist">>)
                \/ Contains(lower_err, <<"operationalerror">>)

\* a migrator whose success also needs a recognised stdout message
UpgradeDecisionStdoutGated(o) ==
  CASE o.kind = "timeout" -> TRUE
    [] o.kind = "exception" -> FALSE
    [] OTHER ->
         IF o.returncode = 0
         THEN o.stdout = <<>> \/ Contains(LowerText(o.stdout), <<"upgraded">>)
         ELSE LET lower_err == LowerText(o.stderr) IN
              Contains(lower_err, <<"does", "not", "exist">>)
                \/ Contains(lower_err, <<"operationalerror">>)

\* the decision of upgrade_database_schema once the subcommand has been run
UpgradeDecision(o) ==
  CASE o.kind = "timeout" -> TRUE
    [] o.kind = "exception" -> FALSE
    [] OTHER ->
         IF o.returncode = 0 THEN TRUE
         ELSE LET lower_err == LowerText(o.stderr) IN
              Contains(lower_err, <<"does", "not", "exist">>)
                \/ Contains(lower_err, <<"operationalerror">>)

(***************************************************************************)
(* Initial state: the process has been started and main() is entered.      *)
(***************************************************************************)
ConnStrings ==
  {NoStr, Some(<<"'", "'">>)}

\* characters of a bucket or folder location, and the locations followed
PathChars == {"b", "f", "/"}
MaxPathLen == 3
Locations(minLen) ==
  UNION {[1..n -> PathChars] : n \in minLen..MaxPathLen}

\* values of MLFLOW_TRACKING_PORT and PORT
Ports == {5001, 8080}

\* main.py reads none of the three GCP fields: they are fixed while main runs;
\* the port and the artifact location are one value there
SettingsSpace ==
  [MLFLOW_HOST : Hosts,
   MLFLOW_POSTGRES_CONNECTION_STRING : ConnStrings,
   POSTGRES_USER : {<<"u">>}, POSTGRES_PASSWORD : {<<"p">>},
   POSTGRES_HOST : {<<"h">>}, POSTGRES_PORT : {<<"5">>}, POSTGRES_DB : {<<"d">>},
   MLFLOW_TRACKING_PORT : {5001}, PORT : {NoStr},
   MLFLOW_BUCKET_LOCATION : {<<"b">>}, MLFLOW_FOLDER_LOCATION : {<<"f">>},
   GCP_PROJECT : {"proj"}, GOOGLE_APPLICATION_CREDENTIALS : {NoStr},
   USE_GCP_INTERACTIVE_AUTH : {FALSE}]

EnvSpace ==
  [platform : Platforms, mlflowInstalled : BOOLEAN, otherListener : BOOLEAN,
   MLFLOW_GC_ENABLED : {"true", "false"},
   GOOGLE_APPLICATION_CREDENTIALS : {NoStr}]

\* credential files of the deployment, and the k-th file made by tempfile.mkstemp
UserPaths == {<<"file", 1>>, <<"file", 2>>}
TempFile(k) == <<"tmp", k>>

\* the settings and the environment a GCPAuthManager can be built in
AuthSettingsSpace ==
  [MLFLOW_HOST : {"127.0.0.1"},
   MLFLOW_POSTGRES_CONNECTION_STRING : {NoStr},
   POSTGRES_USER : {<<"u">>}, POSTGRES_PASSWORD : {<<"p">>},
   POSTGRES_HOST : {<<"h">>}, POSTGRES_PORT : {<<"5">>}, POSTGRES_DB : {<<"d">>},
   MLFLOW_TRACKING_PORT : {5001}, PORT : {NoStr},
   MLFLOW_BUCKET_LOCATION : {<<"b">>}, MLFLOW_FOLDER_LOCATION : {<<"f">>},
   GCP_PROJECT : {"", "proj"},
   GOOGLE_APPLICATION_CREDENTIALS : {NoStr} \cup {Some(p) : p \in UserPaths},
   USE_GCP_INTERACTIVE_AUTH : BOOLEAN]

AuthEnvSpace ==
  [platform : {"linux"}, mlflowInstalled : {TRUE}, otherListener : {FALSE},
   MLFLOW_GC_ENABLED : {"true"},
   GOOGLE_APPLICATION_CREDENTIALS : {NoStr} \cup {Some(p) : p \in UserPaths}]

\* the settings whose properties are computed: every port combination and every
\* bucket and folder location
PropertySettingsSpace ==
  [MLFLOW_HOST : {"127.0.0.1"},
   MLFLOW_POSTGRES_CONNECTION_STRING : {NoStr},
   POSTGRES_USER : {<<"u">>}, POSTGRES_PASSWORD : {<<"p">>},
   POSTGRES_HOST : {<<"h">>}, POSTGRES_PORT : {<<"5">>}, POSTGRES_DB : {<<"d">>},
   MLFLOW_TRACKING_PORT : Ports, PORT : {NoStr} \cup {Some(p) : p \in Ports},
   MLFLOW_BUCKET_LOCATION : Locations(1), MLFLOW_FOLDER_LOCATION : Locations(0),
   GCP_PROJECT : {"proj"}, GOOGLE_APPLICATION_CREDENTIALS : {NoStr},
   USE_GCP_INTERACTIVE_AUTH : {FALSE}]

\* no port has been taken from the settings, no line has been logged
NoPorts == [precheck |-> 0, child_arg |-> 0, readiness |-> 0, gc |-> 0, storage |-> 0]
NoLine == [pipe |-> "none", text |-> <<>>, level |-> "none"]

\* no call has been made on the manager
NoCall ==
  [op |-> "none", configured |-> NoStr, tried |-> <<>>, won |-> "none",
   result |-> NoStr, secret |-> "skipped", before |-> <<>>, after |-> <<>>]

ReaderNames == {"stdout", "stderr"}

\* the supervisor at the entry of main
InitMain ==
  /\ pc = "main"
  /\ mlog = <<>>
  /\ hlog = <<>>
  /\ handlersInstalled = FALSE
  /\ sigAt = None
  /\ sigChild = None
  /\ mlflow_process = None
  /\ child = "none"
  /\ childListening = FALSE
  /\ sigs = <<>>
  /\ spawnCount = 0
  /\ upgradeOutcome = NoOutcome
  /\ upgradeResult = None
  /\ startResult = None
  /\ waitResult = None
  /\ polls = 0
  /\ probes = 0
  /\ polledChild = None
  /\ connects = {}
  /\ gcStop = FALSE
  /\ gcpc = "off"
  /\ gcFailures = 0
  /\ lateLaunches = 0
  /\ sleptAfterStop = FALSE
  /\ readers = [r \in ReaderNames |-> "none"]
  /\ exitCode = -1
  /\ exitVia = None

\* gcp_auth.py 27-35: the manager after its constructor
InitManager ==
  /\ temp_credentials_file = NoStr
  /\ mkstempCount = 0
  /\ lastCall = NoCall

\* nothing has been computed from the settings and no line has been logged
InitProperties ==
  /\ artifactRoots = <<>>
  /\ portsUsed = NoPorts
  /\ lastLine = NoLine

Init ==
  /\ settings \in SettingsSpace
  /\ env \in EnvSpace
  /\ disk = {}
  /\ InitManager
  /\ InitProperties
  /\ InitMain

authVars == <<disk, temp_credentials_file, mkstempCount, lastCall>>
propertyVars == <<artifactRoots, portsUsed, lastLine>>
configVars == <<settings, env, authVars, propertyVars>>
signalVars == <<hlog, handlersInstalled, sigAt, sigChild>>
childVars == <<mlflow_process, child, childListening, sigs, spawnCount>>
upgradeVars == <<upgradeOutcome, upgradeResult>>
waitVars == <<waitResult, polls, probes, polledChild, connects>>
gcHistVars == <<gcFailures, lateLaunches, sleptAfterStop>>
threadVars == <<gcStop, gcpc, gcHistVars, readers>>
exitVars == <<exitCode, exitVia>>
processVars == <<pc, mlog, signalVars, childVars, upgradeVars, startResult, waitVars,
                 threadVars, exitVars>>
mainVars == <<processVars, propertyVars>>

\* the supervisor process ends: sys.exit(code), a return from main, or a traceback
Exit(code, via) ==
  /\ pc' = "exited"
  /\ exitCode' = code
  /\ exitVia' = via

Call(name) == mlog' = Append(mlog, name)

(***************************************************************************)
(* main()                                                                  *)
(***************************************************************************)
\* a registration that leaves the default disposition of the signals in place
signal_signalIgnored(installed) == installed

\* main.py 175-176: signal.signal registers handle_termination for SIGINT and SIGTERM
signal_signal(installed) == TRUE

\* main.py 416: setup_signal_handlers(), the first call of main
SetupSignalHandlers ==
  /\ pc = "main"
  /\ handlersInstalled' = signal_signal(handlersInstalled)
  /\ Call("setup_signal_handlers")
  /\ pc' = "verify"
  /\ UNCHANGED <<configVars, hlog, sigAt, sigChild, childVars, upgradeVars,
                 startResult, waitVars, threadVars, exitVars>>

\* main.py 419-420: verify_mlflow_installation(), sys.exit(1) when it fails
VerifyInstallation ==
  /\ pc = "verify"
  /\ Call("verify_mlflow_installation")
  /\ IF env.mlflowInstalled
     THEN pc' = "upgrade" /\ UNCHANGED exitVars
     ELSE Exit(1, "sys_exit")
  /\ UNCHANGED <<configVars, signalVars, childVars, upgradeVars, startResult,
                 waitVars, threadVars>>

\* upgrade_database_schema(): the empty-URI return, or the subcommand and the decision
UpgradeDatabaseSchema ==
  /\ pc = "upgrade"
  /\ Call("upgrade_database_schema")
  /\ IF ~UriConfigured(backend_store_uri(settings))
     THEN /\ upgradeOutcome' = NoOutcome
          /\ upgradeResult' = Py(FALSE)
     ELSE \E o \in UpgradeOutcomes :
            /\ upgradeOutcome' = o
            /\ upgradeResult' = Py(UpgradeDecision(o))
  /\ pc' = "upgrade_ret"
  /\ UNCHANGED <<configVars, signalVars, childVars, startResult, waitVars,
                 threadVars, exitVars>>

\* a main that starts the server whatever the migrator decided
AfterUpgradeIgnored(ok) == "start_port_check"

\* main.py 424-426: where main goes with the migrator's decision
AfterUpgrade(ok) == IF ok = "True" THEN "start_port_check" ELSE "exit1"

MainAfterUpgrade ==
  /\ pc = "upgrade_ret"
  /\ IF AfterUpgrade(upgradeResult) = "exit1"
     THEN Exit(1, "sys_exit")
     ELSE pc' = AfterUpgrade(upgradeResult) /\ UNCHANGED exitVars
  /\ upgradeOutcome' = NoOutcome
  /\ UNCHANGED <<configVars, mlog, signalVars, childVars, upgradeResult,
                 startResult, waitVars, threadVars>>


(***************************************************************************)
(* start_mlflow_server()                                                   *)
(***************************************************************************)
\* main.py 338-346: the port pre-check on settings.MLFLOW_HOST as it is, then the
\* empty-URI return.  The pre-check is outside the try block: when connect_ex
\* raises, the exception leaves main uncaught and the process ends with code 1.
StartPortCheck ==
  /\ pc = "start_port_check"
  /\ Call("start_mlflow_server")
  /\ IF ConnectEx(settings.MLFLOW_HOST) = "raise"
     THEN Exit(1, "uncaught") /\ UNCHANGED startResult
     ELSE IF is_port_in_use(settings.MLFLOW_HOST)
               \/ ~UriConfigured(backend_store_uri(settings))
          THEN startResult' = Py(FALSE) /\ pc' = "start_ret" /\ UNCHANGED exitVars
          ELSE pc' = "popen" /\ UNCHANGED <<startResult, exitVars>>
  /\ connects' = connects \cup {<<"precheck", settings.MLFLOW_HOST>>}
  /\ UNCHANGED <<configVars, signalVars, childVars, upgradeVars, waitResult, polls,
                 probes, polledChild, threadVars>>

\* main.py 374-384: subprocess.Popen creates the child; the global is not yet bound
Popen ==
  /\ pc = "popen"
  /\ Call("Popen")
  /\ child' = "running"
  /\ childListening' = FALSE
  /\ spawnCount' = spawnCount + 1
  /\ pc' = "assign"
  /\ UNCHANGED <<configVars, signalVars, mlflow_process, sigs, upgradeVars,
                 startResult, waitVars, threadVars, exitVars>>

\* main.py 374, 406-408: Popen raises (the executable cannot be launched)
PopenFails ==
  /\ pc = "popen"
  /\ Call("Popen")
  /\ startResult' = Py(FALSE)
  /\ pc' = "start_ret"
  /\ UNCHANGED <<configVars, signalVars, childVars, upgradeVars, waitVars,
                 threadVars, exitVars>>

\* main.py 374: the assignment mlflow_process = <Popen object>
AssignProcess ==
  /\ pc = "assign"
  /\ mlflow_process' = "proc"
  /\ pc' = "threads"
  /\ UNCHANGED <<configVars, mlog, signalVars, child, childListening, sigs,
                 spawnCount, upgradeVars, startResult, waitVars, threadVars, exitVars>>

\* main.py 387-392: the two daemon reader threads are created and started
StartReaders ==
  /\ pc = "threads"
  /\ readers' = [r \in ReaderNames |-> "reading"]
  /\ pc' = "wait_poll"
  /\ UNCHANGED <<configVars, mlog, signalVars, childVars, upgradeVars, startResult,
                 waitVars, gcStop, gcpc, gcHistVars, exitVars>>

\* main.py 406-408: an exception after the spawn (a thread cannot be started, the
\* probe's socket cannot be created) is logged and start_mlflow_server returns False
ExceptionAfterSpawn ==
  /\ pc \in {"threads", "wait_probe"}
  /\ startResult' = Py(FALSE)
  /\ pc' = "start_ret"
  /\ UNCHANGED <<configVars, mlog, signalVars, childVars, upgradeVars, waitVars,
                 threadVars, exitVars>>


(***************************************************************************)
(* wait_for_mlflow_server(host, port, timeout=30)                          *)
(***************************************************************************)
ReadinessTimeout == 30

\* failed GC cycles followed by the model
MaxGcFailures == 1

\* a readiness loop that never looks at the child
ChildExitedCheckNever(p, c) == FALSE

\* main.py 231: `mlflow_process and mlflow_process.poll() is not None`
ChildExitedCheck(p, c) == p # None /\ c = "exited"

\* main.py 230-233: the loop header and the child-exit check of one tick
WaitPoll ==
  /\ pc = "wait_poll"
  /\ IF polls >= ReadinessTimeout
     THEN /\ waitResult' = "timeout"
          /\ pc' = "wait_ret"
          /\ UNCHANGED <<polls, polledChild>>
     ELSE /\ polls' = polls + 1
          /\ polledChild' = child
          /\ IF ChildExitedCheck(mlflow_process, child)
             THEN waitResult' = "child_exited" /\ pc' = "wait_ret"
             ELSE pc' = "wait_probe" /\ UNCHANGED waitResult
  /\ UNCHANGED <<configVars, mlog, signalVars, childVars, upgradeVars, startResult,
                 probes, connects, threadVars, exitVars>>

\* main.py 235-238: the port probe of one tick, then the one-second sleep
WaitProbe ==
  /\ pc = "wait_probe"
  /\ ConnectEx(check_host(settings.MLFLOW_HOST)) # "raise"
  /\ probes' = probes + 1
  /\ connects' = connects \cup {<<"readiness", check_host(settings.MLFLOW_HOST)>>}
  /\ IF is_port_in_use(check_host(settings.MLFLOW_HOST))
     THEN waitResult' = "ready" /\ pc' = "wait_ret"
     ELSE pc' = "wait_poll" /\ UNCHANGED waitResult
  /\ UNCHANGED <<configVars, mlog, signalVars, childVars, upgradeVars, startResult,
                 polls, polledChild, threadVars, exitVars>>

\* main.py 397-404: the result of the wait; on failure a child that poll() finds
\* running is sent terminate (no wait follows), and False is returned
StartAfterWait ==
  /\ pc = "wait_ret"
  /\ IF waitResult = "ready"
     THEN startResult' = Py(TRUE) /\ UNCHANGED sigs
     ELSE /\ startResult' = Py(FALSE)
          /\ IF mlflow_process # None /\ child = "running"
             THEN sigs' = Append(sigs, <<"start_mlflow_server", "TERM">>)
             ELSE UNCHANGED sigs
  /\ pc' = "start_ret"
  /\ UNCHANGED <<configVars, mlog, signalVars, mlflow_process, child, childListening,
                 spawnCount, upgradeVars, waitVars, threadVars, exitVars>>

(***************************************************************************)
(* main(), after start_mlflow_server() has returned                        *)
(***************************************************************************)
\* a main that starts the server again when the start failed
AfterStartRetry(ok) == IF ok = "True" THEN "gc_start" ELSE "start_port_check"

\* main.py 441, 464-466: where main goes with start_mlflow_server's result
AfterStart(ok) == IF ok = "True" THEN "gc_start" ELSE "exit1"

MainAfterStart ==
  /\ pc = "start_ret"
  /\ IF AfterStart(startResult) = "exit1"
     THEN Exit(1, "sys_exit")
     ELSE pc' = AfterStart(startResult) /\ UNCHANGED exitVars
  /\ UNCHANGED <<configVars, mlog, signalVars, childVars, upgradeVars, startResult,
                 waitVars, threadVars>>

\* a main that starts the GC thread whatever MLFLOW_GC_ENABLED says
gc_enabledAlways == TRUE

\* main.py 429: MLFLOW_GC_ENABLED read from the environment
gc_enabled == env.MLFLOW_GC_ENABLED \notin {"0", "false", "no"}

\* main.py 445-455: the GC thread is started if GC is enabled
MainStartGc ==
  /\ pc = "gc_start"
  /\ IF gc_enabled
     THEN gcpc' = "start" /\ Call("gc_thread.start")
     ELSE UNCHANGED <<gcpc, mlog>>
  /\ pc' = "main_wait"
  /\ UNCHANGED <<configVars, signalVars, childVars, upgradeVars, startResult,
                 waitVars, gcStop, gcHistVars, readers, exitVars>>

\* main.py 457-463 and the end of main: mlflow_process.wait() returns when the child
\* has exited, main returns and the interpreter ends with code 0
MainWaitReturns ==
  /\ pc = "main_wait"
  /\ child = "exited"
  /\ Exit(0, "main_return")
  /\ UNCHANGED <<configVars, mlog, signalVars, childVars, upgradeVars, startResult,
                 waitVars, threadVars>>

(***************************************************************************)
(* _run_mlflow_gc_loop: a daemon thread, gone when the process has exited  *)
(***************************************************************************)
\* main.py 91-109: the empty-URI return, then the loop is entered
GcEnter ==
  /\ gcpc = "start" /\ pc # "exited"
  /\ gcpc' = IF backend_store_uri(settings) = <<>> THEN "done" ELSE "check"
  /\ UNCHANGED <<configVars, pc, mlog, signalVars, childVars, upgradeVars,
                 startResult, waitVars, gcStop, gcHistVars, readers, exitVars>>

\* main.py 111: while not _gc_stop_event.is_set()
GcCheck ==
  /\ gcpc = "check" /\ pc # "exited"
  /\ gcpc' = IF gcStop THEN "done" ELSE "run"
  /\ UNCHANGED <<configVars, pc, mlog, signalVars, childVars, upgradeVars,
                 startResult, waitVars, gcStop, gcHistVars, readers, exitVars>>

\* main.py 112-127: the loop body is entered and `mlflow gc` is run; the stop event
\* is not read again between the loop test and the launch
GcLaunch ==
  /\ gcpc = "run" /\ pc # "exited"
  /\ gcpc' = "cycle"
  /\ lateLaunches' = lateLaunches + (IF gcStop THEN 1 ELSE 0)
  /\ UNCHANGED <<configVars, pc, mlog, signalVars, childVars, upgradeVars,
                 startResult, waitVars, gcStop, gcFailures, sleptAfterStop,
                 readers, exitVars>>

\* how a cycle can end: exit code 0, a non-zero exit code (check=False), or an
\* exception of subprocess.run, the failure to launch included
GcOutcomes == {"ok", "nonzero", "exception"}

\* a loop that lets the exception of a cycle end the thread
AfterCycleRaises(outcome) == IF outcome = "exception" THEN "done" ELSE "wait"

\* main.py 119-138: every outcome of a cycle is logged and leads to the wait
AfterCycle(outcome) == "wait"

\* main.py 119-136: the cycle ends
GcCycleEnds ==
  \E outcome \in GcOutcomes :
    /\ gcpc = "cycle" /\ pc # "exited"
    /\ outcome # "ok" => gcFailures < MaxGcFailures
    /\ gcFailures' = gcFailures + (IF outcome = "ok" THEN 0 ELSE 1)
    /\ gcpc' = AfterCycle(outcome)
    /\ UNCHANGED <<configVars, pc, mlog, signalVars, childVars, upgradeVars,
                   startResult, waitVars, gcStop, lateLaunches, sleptAfterStop,
                   readers, exitVars>>

\* a wait that is a plain sleep of the interval
SleepWait(flag) == "timeout"

\* main.py 138: Event.wait(interval_seconds) returns at once when the event is set,
\* and after the interval when it is not
EventWait(flag) == IF flag THEN "set" ELSE "timeout"

\* main.py 138: _gc_stop_event.wait(interval_seconds) returns
GcWait ==
  /\ gcpc = "wait" /\ pc # "exited"
  /\ gcpc' = "check"
  /\ sleptAfterStop' = (sleptAfterStop \/ (gcStop /\ EventWait(gcStop) = "timeout"))
  /\ UNCHANGED <<configVars, pc, mlog, signalVars, childVars, upgradeVars,
                 startResult, waitVars, gcStop, gcFailures, lateLaunches,
                 readers, exitVars>>

(***************************************************************************)
(* log_subprocess_output: a daemon thread per pipe                         *)
(***************************************************************************)
\* a reader that gives up as soon as the child has been sent a signal
ReaderAtEofOnSignal(c, sent) == c = "exited" \/ sent # <<>>

\* main.py 60: readline returns '' only once the child has closed its end of the
\* pipe, whatever signals the child has been sent
ReaderAtEof(c, sent) == c = "exited"

\* main.py 60, 80-82: readline returns '', the loop ends and the pipe is closed
ReaderEof ==
  \E r \in ReaderNames :
    /\ readers[r] = "reading" /\ ReaderAtEof(child, sigs) /\ pc # "exited"
    /\ readers' = [readers EXCEPT ![r] = "closed"]
    /\ UNCHANGED <<configVars, pc, mlog, signalVars, childVars, upgradeVars,
                   startResult, waitVars, gcStop, gcpc, gcHistVars, exitVars>>

\* main.py 78-82: an exception while reading is logged as a warning inside the
\* thread and the pipe is closed; the other reader and the main thread go on
ReaderRaises ==
  \E r \in ReaderNames :
    /\ readers[r] = "reading" /\ pc # "exited"
    /\ readers' = [readers EXCEPT ![r] = "raised"]
    /\ UNCHANGED <<configVars, pc, mlog, signalVars, childVars, upgradeVars,
                   startResult, waitVars, gcStop, gcpc, gcHistVars, exitVars>>


(***************************************************************************)
(* Signals and handle_termination.  One delivery of SIGINT or SIGTERM is   *)
(* followed; the handler runs on the main thread, between two of its       *)
(* steps, and never returns to the interrupted code.                       *)
(***************************************************************************)
\* main.py 175-176 and 143: a signal arrives once the handlers are registered
Signal ==
  /\ handlersInstalled
  /\ sigAt = None
  /\ pc # "exited"
  /\ sigAt' = pc
  /\ sigChild' = child
  /\ pc' = "h_gc_stop"
  /\ UNCHANGED <<configVars, mlog, hlog, handlersInstalled, childVars, upgradeVars,
                 startResult, waitVars, threadVars, exitVars>>

\* a handler without the `if mlflow_process:` guard
HasChildUnguarded(p) == TRUE

\* main.py 156: `if mlflow_process:`
HasChild(p) == p # None

\* main.py 149-156: the GC stop event is set (nothing waits for the GC thread),
\* then the handler looks at the global
HandlerStopGc ==
  /\ pc = "h_gc_stop"
  /\ gcStop' = TRUE
  /\ hlog' = Append(hlog, "gc_stop")
  /\ pc' = IF HasChild(mlflow_process) THEN "h_terminate" ELSE "h_exit"
  /\ UNCHANGED <<configVars, mlog, handlersInstalled, sigAt, sigChild, childVars,
                 upgradeVars, startResult, waitVars, gcpc, gcHistVars, readers, exitVars>>

\* main.py 158: mlflow_process.terminate(); Popen sends nothing to a child that has
\* exited.  On None the attribute lookup raises and line 166 catches it.
HandlerTerminate ==
  /\ pc = "h_terminate"
  /\ IF mlflow_process = None
     THEN /\ hlog' = Append(hlog, "error")
          /\ pc' = "h_exit"
          /\ UNCHANGED sigs
     ELSE /\ hlog' = Append(hlog, "terminate")
          /\ sigs' = IF child = "running"
                     THEN Append(sigs, <<"handle_termination", "TERM">>)
                     ELSE sigs
          /\ pc' = "h_wait"
  /\ UNCHANGED <<configVars, mlog, handlersInstalled, sigAt, sigChild, mlflow_process,
                 child, childListening, spawnCount, upgradeVars, startResult,
                 waitVars, threadVars, exitVars>>

\* main.py 158, 166-167: sending the signal raises (the OS refuses it); the error is
\* logged and neither wait nor kill follows
HandlerTerminateRaises ==
  /\ pc = "h_terminate"
  /\ mlflow_process # None
  /\ child = "running"
  /\ hlog' = Append(hlog, "error")
  /\ pc' = "h_exit"
  /\ UNCHANGED <<configVars, mlog, handlersInstalled, sigAt, sigChild, childVars,
                 upgradeVars, startResult, waitVars, threadVars, exitVars>>

\* a handler that kills whatever the grace wait returned
GraceWaitAlwaysKill(c) == "h_kill"

\* main.py 159-162: after wait(timeout=10): the exit code is logged, or
\* TimeoutExpired leads to the kill
GraceWaitNext(c) == IF c = "exited" THEN "h_exit" ELSE "h_kill"

\* main.py 159: mlflow_process.wait(timeout=10) returns or times out
HandlerGraceWait ==
  /\ pc = "h_wait"
  /\ hlog' = Append(hlog, IF child = "exited" THEN "exited_in_grace" ELSE "grace_timeout")
  /\ pc' = GraceWaitNext(child)
  /\ UNCHANGED <<configVars, mlog, handlersInstalled, sigAt, sigChild, childVars,
                 upgradeVars, startResult, waitVars, threadVars, exitVars>>

\* main.py 163: mlflow_process.kill()
HandlerKill ==
  /\ pc = "h_kill"
  /\ hlog' = Append(hlog, "kill")
  /\ sigs' = IF child = "running"
             THEN Append(sigs, <<"handle_termination", "KILL">>)
             ELSE sigs
  /\ pc' = "h_wait_forever"
  /\ UNCHANGED <<configVars, mlog, handlersInstalled, sigAt, sigChild, mlflow_process,
                 child, childListening, spawnCount, upgradeVars, startResult,
                 waitVars, threadVars, exitVars>>

\* main.py 164: mlflow_process.wait() with no timeout returns once the child has exited
HandlerWaitForever ==
  /\ pc = "h_wait_forever"
  /\ child = "exited"
  /\ hlog' = Append(hlog, "waited")
  /\ pc' = "h_exit"
  /\ UNCHANGED <<configVars, mlog, handlersInstalled, sigAt, sigChild, childVars,
                 upgradeVars, startResult, waitVars, threadVars, exitVars>>

\* main.py 169-173: two log lines and sys.exit(0)
HandlerExit ==
  /\ pc = "h_exit"
  /\ hlog' = Append(hlog, "exit")
  /\ Exit(0, "handle_termination")
  /\ UNCHANGED <<configVars, mlog, handlersInstalled, sigAt, sigChild, childVars,
                 upgradeVars, startResult, waitVars, threadVars>>

(***************************************************************************)
(* The environment: the child process                                      *)
(***************************************************************************)
\* the child ends: by itself, or because of a signal it was sent
ChildExit ==
  /\ child = "running"
  /\ child' = "exited"
  /\ childListening' = FALSE
  /\ UNCHANGED <<configVars, pc, mlog, signalVars, mlflow_process, sigs, spawnCount,
                 upgradeVars, startResult, waitVars, threadVars, exitVars>>

\* the child binds the port, if nobody else holds it
ChildListen ==
  /\ child = "running"
  /\ ~childListening
  /\ ~env.otherListener
  /\ childListening' = TRUE
  /\ UNCHANGED <<configVars, pc, mlog, signalVars, mlflow_process, child, sigs,
                 spawnCount, upgradeVars, startResult, waitVars, threadVars, exitVars>>

Next ==
  \/ SetupSignalHandlers
  \/ VerifyInstallation
  \/ UpgradeDatabaseSchema
  \/ MainAfterUpgrade
  \/ StartPortCheck
  \/ Popen
  \/ PopenFails
  \/ AssignProcess
  \/ StartReaders
  \/ ExceptionAfterSpawn
  \/ WaitPoll
  \/ WaitProbe
  \/ StartAfterWait
  \/ MainAfterStart
  \/ MainStartGc
  \/ MainWaitReturns
  \/ GcEnter
  \/ GcCheck
  \/ GcLaunch
  \/ GcCycleEnds
  \/ GcWait
  \/ ReaderEof
  \/ ReaderRaises
  \/ Signal
  \/ HandlerStopGc
  \/ HandlerTerminate
  \/ HandlerTerminateRaises
  \/ HandlerGraceWait
  \/ HandlerKill
  \/ HandlerWaitForever
  \/ HandlerExit
  \/ ChildExit
  \/ ChildListen

Spec == Init /\ [][Next]_vars

(***************************************************************************)
(* GCPAuthManager (src/src/utils/gcp_auth.py).  main.py never calls it;    *)
(* its callers make setup_gcp_credentials and cleanup calls on the one     *)
(* instance in any order, and other processes can remove files.            *)
(***************************************************************************)
\* temporary files followed by the model
MaxTempFiles == 3

\* os.path.exists of an Optional path that is set
PathExists(path, files) == path # NoStr /\ path[1] \in files

\* gcp_auth.py 65-73: a GOOGLE_APPLICATION_CREDENTIALS of the environment that does
\* not exist is deleted from the environment, and from the settings if they hold it
EnvAfterEnsure(e, files) ==
  IF e.GOOGLE_APPLICATION_CREDENTIALS # NoStr
       /\ ~PathExists(e.GOOGLE_APPLICATION_CREDENTIALS, files)
  THEN [e EXCEPT !.GOOGLE_APPLICATION_CREDENTIALS = NoStr]
  ELSE e

SettingsAfterEnsure(st, e, files) ==
  IF e.GOOGLE_APPLICATION_CREDENTIALS # NoStr
       /\ ~PathExists(e.GOOGLE_APPLICATION_CREDENTIALS, files)
       /\ st.GOOGLE_APPLICATION_CREDENTIALS = e.GOOGLE_APPLICATION_CREDENTIALS
  THEN [st EXCEPT !.GOOGLE_APPLICATION_CREDENTIALS = NoStr]
  ELSE st

\* an explicit-file strategy that takes the configured path without looking at it
ExplicitFileUnchecked(path, files) == path # NoStr

\* gcp_auth.py 85-88: the configured credentials file is used if it exists
ExplicitFile(path, files) == PathExists(path, files)

\* what the secret-store strategy can meet: a well-formed secret written to a new
\* file, a payload that is not JSON, a retrieval that raises, and a temporary file
\* that is made but cannot be written
SecretOutcomes == {"valid", "bad_json", "raises", "write_fails"}

\* a secret-store strategy that skips the JSON validation
SecretMakesFileUnvalidated(outcome) == outcome \in {"valid", "write_fails", "bad_json"}

\* gcp_auth.py 127-150: tempfile.mkstemp is reached only after the secret has been
\* retrieved and parsed
SecretMakesFile(outcome) == outcome \in {"valid", "write_fails"}

\* gcp_auth.py 153-159: the file is recorded, exported and returned only after it
\* has been written
SecretSucceeds(outcome) == outcome = "valid"

\* gcp_auth.py 75-114
setup_gcp_credentials ==
  \E secret \in SecretOutcomes, adcOk \in BOOLEAN :
    LET env1 == EnvAfterEnsure(env, disk)
        settings1 == SettingsAfterEnsure(settings, env, disk)
        creds_path == settings1.GOOGLE_APPLICATION_CREDENTIALS
        explicit == ExplicitFile(creds_path, disk)
        trySecret == ~explicit /\ settings1.GCP_PROJECT # ""
        outcome == IF trySecret THEN secret ELSE "skipped"
        made == trySecret /\ SecretMakesFile(secret)
        wrote == trySecret /\ SecretSucceeds(secret)
        temp_file == TempFile(mkstempCount + 1)
        tryAdc == ~explicit /\ ~wrote /\ settings1.USE_GCP_INTERACTIVE_AUTH
        disk1 == IF made THEN disk \cup {temp_file} ELSE disk
        temp1 == IF wrote THEN Some(temp_file) ELSE temp_credentials_file
        env2 == IF wrote
                THEN [env1 EXCEPT !.GOOGLE_APPLICATION_CREDENTIALS = Some(temp_file)]
                ELSE env1
    IN /\ made => mkstempCount < MaxTempFiles
       /\ settings' = settings1
       /\ env' = env2
       /\ disk' = disk1
       /\ temp_credentials_file' = temp1
       /\ mkstempCount' = mkstempCount + (IF made THEN 1 ELSE 0)
       /\ lastCall' =
            [op |-> "setup",
             configured |-> settings.GOOGLE_APPLICATION_CREDENTIALS,
             tried |-> <<"explicit">> \o (IF trySecret THEN <<"secret">> ELSE <<>>)
                         \o (IF tryAdc THEN <<"adc">> ELSE <<>>),
             won |-> IF explicit THEN "explicit"
                     ELSE IF wrote THEN "secret"
                     ELSE IF tryAdc /\ adcOk THEN "adc" ELSE "none",
             result |-> IF explicit THEN creds_path
                        ELSE IF wrote THEN Some(temp_file) ELSE NoStr,
             secret |-> outcome,
             before |-> <<env1.GOOGLE_APPLICATION_CREDENTIALS, temp_credentials_file,
                          mkstempCount>>,
             after |-> <<env2.GOOGLE_APPLICATION_CREDENTIALS, temp1,
                         mkstempCount'>>]
       /\ UNCHANGED mainVars

\* gcp_auth.py 218-226: os.unlink can fail, which is logged
cleanup ==
  \E unlinkOk \in BOOLEAN :
    LET present == PathExists(temp_credentials_file, disk)
        removed == present /\ unlinkOk
    IN /\ disk' = IF removed THEN disk \ {temp_credentials_file[1]} ELSE disk
       /\ temp_credentials_file' = IF removed THEN NoStr ELSE temp_credentials_file
       /\ lastCall' =
            [NoCall EXCEPT !.op = "cleanup",
                           !.before = <<temp_credentials_file, present>>,
                           !.after = <<temp_credentials_file'>>]
       /\ UNCHANGED <<settings, env, mkstempCount, mainVars>>

\* somebody else removes a file (a tmp cleaner, an operator)
ExternalRemove ==
  \E p \in disk :
    /\ disk' = disk \ {p}
    /\ lastCall' = [NoCall EXCEPT !.op = "external_remove"]
    /\ UNCHANGED <<settings, env, temp_credentials_file, mkstempCount, mainVars>>

InitAuth ==
  /\ settings \in AuthSettingsSpace
  /\ env \in AuthEnvSpace
  /\ disk \in SUBSET UserPaths
  /\ InitManager
  /\ InitProperties
  /\ InitMain

NextAuth ==
  \/ setup_gcp_credentials
  \/ cleanup
  \/ ExternalRemove

SpecAuth == InitAuth /\ [][NextAuth]_vars

(***************************************************************************)
(* log_subprocess_output: the level of a line.  A line is a sequence of    *)
(* words, brackets and blanks.                                             *)
(***************************************************************************)
LineTokens ==
  {"Traceback (most recent call last):", "ERROR", "CRITICAL", "fatal", "WARNING",
   "warn", "[", " ", "ok"}
MaxLineLen == 3
ChildLines == UNION {[1..n -> LineTokens] : n \in 0..MaxLineLen}

\* str.startswith
StartsWith(t, pat) == Len(t) >= Len(pat) /\ SubSeq(t, 1, Len(pat)) = pat

\* a classification that looks for the warning markers first
SeverityWarningFirst(line) ==
  LET lower == LowerText(StrStrip(line, Whitespace))
  IN IF StartsWith(lower, <<"warning">>) \/ Contains(lower, <<" ", "warn", " ">>)
          \/ Contains(lower, <<"[", "warning">>)
     THEN "WARNING"
     ELSE IF \/ Contains(lower, <<"traceback (most recent call last):">>)
             \/ StartsWith(lower, <<"error">>)
             \/ Contains(lower, <<" ", "error", " ">>)
             \/ Contains(lower, <<"[", "error">>)
             \/ Contains(lower, <<" ", "critical", " ">>)
             \/ Contains(lower, <<"fatal">>)
          THEN "ERROR"
          ELSE "INFO"

\* main.py 61-75: the level of a line
Severity(line) ==
  LET text == StrStrip(line, Whitespace)
      lower == LowerText(text)
  IN IF \/ Contains(lower, <<"traceback (most recent call last):">>)
        \/ StartsWith(lower, <<"error">>)
        \/ Contains(lower, <<" ", "error", " ">>)
        \/ Contains(lower, <<"[", "error">>)
        \/ Contains(lower, <<" ", "critical", " ">>)
        \/ Contains(lower, <<"fatal">>)
     THEN "ERROR"
     ELSE IF \/ StartsWith(lower, <<"warning">>)
             \/ Contains(lower, <<" ", "warn", " ">>)
             \/ Contains(lower, <<"[", "warning">>)
          THEN "WARNING"
          ELSE "INFO"

\* main.py 61-77: the reader logs the line it has read at the level of the line
LogLine ==
  /\ lastLine.pipe \in ReaderNames /\ lastLine.level = "none"
  /\ lastLine' = [lastLine EXCEPT !.level = Severity(lastLine.text)]
  /\ UNCHANGED <<settings, env, authVars, artifactRoots, portsUsed, processVars>>

InitReader ==
  /\ settings \in SettingsSpace
  /\ settings.MLFLOW_HOST = "127.0.0.1"
  /\ settings.MLFLOW_POSTGRES_CONNECTION_STRING = NoStr
  /\ env \in AuthEnvSpace
  /\ env.GOOGLE_APPLICATION_CREDENTIALS = NoStr
  /\ disk = {}
  /\ InitManager
  /\ artifactRoots = <<>>
  /\ portsUsed = NoPorts
  /\ lastLine \in [pipe : ReaderNames, text : ChildLines, level : {"none"}]
  /\ InitMain

NextReader == LogLine

SpecReader == InitReader /\ [][NextReader]_vars

(***************************************************************************)
(* Properties of the settings (src/src/config/settings.py) and their users *)
(***************************************************************************)
\* the elements of s.split('/'), as a set: the maximal runs without '/'
Segments(s) ==
  {SubSeq(s, i, j) : <<i, j>> \in
     {ij \in (1..(Len(s) + 1)) \X (0..Len(s)) :
        /\ ij[2] >= ij[1] - 1
        /\ (ij[1] = 1 \/ s[ij[1] - 1] = "/")
        /\ (ij[2] = Len(s) \/ s[ij[2] + 1] = "/")
        /\ \A k \in ij[1]..ij[2] : s[k] # "/"}}

\* settings.py 82-95
artifact_root(st) ==
  LET bucket_location == st.MLFLOW_BUCKET_LOCATION
      folder_location == st.MLFLOW_FOLDER_LOCATION
  IN IF folder_location # <<>> /\ folder_location \in Segments(bucket_location)
     THEN bucket_location
     ELSE IF bucket_location = <<>> \/ bucket_location[Len(bucket_location)] # "/"
          THEN bucket_location \o <<"/">> \o folder_location
          ELSE bucket_location \o folder_location

\* settings.artifact_root is read
ReadArtifactRoot ==
  /\ artifactRoots = <<>>
  /\ artifactRoots' = <<artifact_root(settings)>>
  /\ UNCHANGED <<settings, env, authVars, portsUsed, lastLine, processVars>>

\* the result is configured as the bucket location, with the same folder location,
\* and settings.artifact_root is read again
RejoinArtifactRoot ==
  /\ Len(artifactRoots) = 1
  /\ artifactRoots' =
       Append(artifactRoots,
              artifact_root([settings EXCEPT !.MLFLOW_BUCKET_LOCATION = artifactRoots[1]]))
  /\ UNCHANGED <<settings, env, authVars, portsUsed, lastLine, processVars>>

\* settings.py 119-122
effective_port(st) == IF st.PORT # NoStr THEN st.PORT[1] ELSE st.MLFLOW_TRACKING_PORT

\* mlflow_storage.py 126: the port of MLflowStorageManager.get_tracking_uri
get_tracking_uri_port(st) == st.MLFLOW_TRACKING_PORT

\* the components take their port from the settings: start_mlflow_server reads
\* settings.effective_port once (main.py 315) for the pre-check (338), --port (358)
\* and the readiness wait (397); the GC loop reads it for its tracking URI (98);
\* get_tracking_uri builds its own
TakePorts ==
  /\ portsUsed = NoPorts
  /\ LET port == effective_port(settings)
     IN portsUsed' = [precheck |-> port, child_arg |-> port, readiness |-> port,
                      gc |-> effective_port(settings),
                      storage |-> get_tracking_uri_port(settings)]
  /\ UNCHANGED <<settings, env, authVars, artifactRoots, lastLine, processVars>>

InitSettings ==
  /\ settings \in PropertySettingsSpace
  /\ env \in AuthEnvSpace
  /\ env.GOOGLE_APPLICATION_CREDENTIALS = NoStr
  /\ disk = {}
  /\ InitManager
  /\ InitProperties
  /\ InitMain

NextSettings ==
  \/ ReadArtifactRoot
  \/ RejoinArtifactRoot
  \/ TakePorts

SpecSettings == InitSettings /\ [][NextSettings]_vars


(***************************************************************************)
(* Properties                                                              *)
(***************************************************************************)
InLog(log, x) == \E i \in 1..Len(log) : log[i] = x
Count(log, x) == Cardinality({i \in 1..Len(log) : log[i] = x})
Before(log, x, y) ==
  \E i, j \in 1..Len(log) : i < j /\ log[i] = x /\ log[j] = y

HandlerSignals == {i \in 1..Len(sigs) : sigs[i][1] = "handle_termination"}

\* C1: when the process has exited through the termination handler, the handler
\* has, in this order, set the GC stop flag, run the child's terminate/wait/kill
\* sequence to completion, invoked credential cleanup, and exited with code 0.
C1_HandlerStepsInOrder ==
  exitVia = "handle_termination" =>
    /\ hlog[1] = "gc_stop"
    /\ ~InLog(hlog, "error")
    /\ Len(hlog) >= 3
    /\ hlog[Len(hlog) - 1] = "cleanup"
    /\ hlog[Len(hlog)] = "exit"
    /\ exitCode = 0

\* C2: in the handler a kill is called only right after a grace wait that timed out,
\* which itself follows the terminate; a kill is always followed by the unbounded
\* wait, which returns only when the child has exited; no kill is called or
\* delivered when the child exited within the grace wait, and a delivered KILL is
\* preceded by a delivered TERM.
C2_KillOnlyAfterGraceTimeout ==
  /\ \A i \in 1..Len(hlog) :
       hlog[i] = "kill" =>
         /\ i >= 3
         /\ hlog[i - 1] = "grace_timeout"
         /\ hlog[i - 2] = "terminate"
         /\ (i < Len(hlog) => hlog[i + 1] = "waited")
  /\ (InLog(hlog, "kill") /\ ~InLog(hlog, "waited") => pc \in {"h_wait_forever"})
  /\ (InLog(hlog, "waited") => child = "exited")
  /\ (InLog(hlog, "exited_in_grace") =>
        ~InLog(hlog, "kill") /\ \A i \in HandlerSignals : sigs[i][2] # "KILL")
  /\ \A i \in 1..Len(sigs) :
       sigs[i] = <<"handle_termination", "KILL">> =>
         \E j \in 1..(i - 1) : sigs[j] = <<"handle_termination", "TERM">>

\* C2 witness: the handler has been through terminate, a grace timeout, a delivered
\* kill and the unbounded wait, and has exited
C2_Witness ==
  /\ exitVia = "handle_termination"
  /\ hlog = <<"gc_stop", "terminate", "grace_timeout", "kill", "waited", "exit">>
  /\ InLog(sigs, <<"handle_termination", "KILL">>)

\* C3: when a signal arrived while the supervisor was blocked on a running child and
\* the process has exited through the handler, the child is no longer running and
\* the exit code is 0, on every path of the handler.
C3_SignalWhileRunningStopsChild ==
  (pc = "exited" /\ exitVia = "handle_termination"
     /\ sigAt = "main_wait" /\ sigChild = "running")
    => (child = "exited" /\ exitCode = 0)

\* C4: when the handler runs with no child (never spawned, or already exited when
\* the signal arrived) it delivers no signal to any process, raises no error, calls
\* no kill, and the process exits with code 0.
C4_NoOpOnAbsentChild ==
  (sigAt # None /\ sigChild \in {"none", "exited"}) =>
    /\ HandlerSignals = {}
    /\ ~InLog(hlog, "error")
    /\ ~InLog(hlog, "kill")
    /\ (pc = "exited" => exitVia = "handle_termination" /\ exitCode = 0)

\* C4 witness: the signal found a spawned child that had already exited, and the
\* handler has gone through terminate and the grace wait to the exit
C4_Witness ==
  /\ pc = "exited"
  /\ sigChild = "exited"
  /\ mlflow_process # None
  /\ hlog = <<"gc_stop", "terminate", "exited_in_grace", "exit">>

\* C5: if another listener holds the target port, start_mlflow_server returns
\* failure and spawns nothing: no child, mlflow_process unset, no reader started.
C5_PortInUseNoSpawn ==
  env.otherListener =>
    /\ spawnCount = 0
    /\ mlflow_process = None
    /\ \A r \in ReaderNames : readers[r] = "none"
    /\ (pc = "start_ret" => startResult = "False")

\* C6: the readiness wait makes at most `timeout` ticks; each probe follows a
\* child-exit check of the same tick that found the child alive; a check that finds
\* the child exited ends the wait with failure at once, with no probe on that tick;
\* success is reported only from a probe of a tick whose check passed; the timeout
\* is reported only after `timeout` full ticks.
C6_ReadinessPolling ==
  /\ probes <= polls
  /\ polls <= ReadinessTimeout
  /\ (pc = "wait_probe" => polledChild = "running" /\ probes = polls - 1)
  /\ (pc = "wait_poll" => probes = polls /\ waitResult = None)
  /\ (polledChild = "exited" => waitResult = "child_exited")
  /\ (waitResult = "child_exited" => polledChild = "exited" /\ probes = polls - 1)
  /\ (waitResult = "ready" => polledChild = "running" /\ probes = polls)
  /\ (waitResult = "timeout" => polls = ReadinessTimeout /\ probes = polls)

\* C6 witness: the wait has failed on a later tick because the child had exited
C6_Witness ==
  /\ waitResult = "child_exited"
  /\ polls > 2
  /\ pc = "wait_ret"

\* C7: when start_mlflow_server has failed after spawning the child and the
\* supervisor has exited, the child is not running any more.
C7_FailedStartLeavesNoChild ==
  (pc = "exited" /\ exitVia = "sys_exit" /\ startResult = "False" /\ spawnCount > 0)
    => child # "running"

\* C8: when the child exits by itself while the supervisor is Running and no signal
\* was received, the supervisor exits with a non-zero code.
C8_CrashExitsNonZero ==
  (pc = "exited" /\ exitVia = "main_return") => exitCode # 0

\* C9: at most one child is ever spawned in a run: Popen and start_mlflow_server
\* are each called at most once.
C9_AtMostOneSpawn ==
  /\ spawnCount <= 1
  /\ Count(mlog, "Popen") <= 1
  /\ Count(mlog, "start_mlflow_server") <= 1

\* C9 witness: the one child crashed during the readiness wait and the supervisor
\* has exited without another spawn
C9_Witness ==
  /\ pc = "exited"
  /\ exitVia = "sys_exit"
  /\ spawnCount = 1
  /\ waitResult = "child_exited"

C11_ExitCodes ==
  /\ (pc = "exited" /\ sigAt = None /\ startResult # "True" =>
        exitCode = 1 /\ gcpc = "off")
  /\ (pc = "exited" /\ exitCode = 0 => exitVia = "handle_termination")

MatchesDoesNotExist(o) == Contains(LowerText(o.stderr), <<"does", "not", "exist">>)
MatchesOperationalError(o) == Contains(LowerText(o.stderr), <<"operationalerror">>)

\* C12 as stated: a failure exit code whose stderr does not contain "does not
\* exist" gives proceed=false, and so does an unexpected exception.
C12_FailureWithoutDoesNotExistRefuses ==
  /\ (upgradeOutcome.kind = "exit" /\ upgradeOutcome.returncode # 0
        /\ ~MatchesDoesNotExist(upgradeOutcome) => upgradeResult = "False")
  /\ (upgradeOutcome.kind = "exception" => upgradeResult = "False")

\* C12 as amended: a failure exit code whose stderr contains neither "does not
\* exist" nor "operationalerror" (compared in lower case) gives proceed=false, and
\* so does an unexpected exception other than the timeout.
C12_UnmatchedFailureRefuses ==
  /\ (upgradeOutcome.kind = "exit" /\ upgradeOutcome.returncode # 0
        /\ ~MatchesDoesNotExist(upgradeOutcome)
        /\ ~MatchesOperationalError(upgradeOutcome) => upgradeResult = "False")
  /\ (upgradeOutcome.kind = "exception" => upgradeResult = "False")

\* C12 witness: the subcommand failed with an unmatched stderr and the migrator
\* has returned False
C12_Witness ==
  /\ pc = "upgrade_ret"
  /\ upgradeOutcome.kind = "exit"
  /\ upgradeOutcome.returncode = 1
  /\ upgradeOutcome.stderr = <<"permission", "denied">>
  /\ upgradeResult = "False"

\* C13: the migrator returns proceed=true when the subcommand exits with success
\* (whatever stdout holds, empty included), when it fails with "does not exist" in
\* stderr, and when it times out; two outcomes that differ only in stdout get the
\* same decision.
C13_ProceedCases ==
  /\ (upgradeOutcome.kind = "exit" /\ upgradeOutcome.returncode = 0 =>
        upgradeResult = "True")
  /\ (upgradeOutcome.kind = "exit" /\ upgradeOutcome.returncode # 0
        /\ MatchesDoesNotExist(upgradeOutcome) => upgradeResult = "True")
  /\ (upgradeOutcome.kind = "timeout" => upgradeResult = "True")
  /\ (upgradeOutcome.kind # "none" =>
        \A out \in Stdouts :
          Py(UpgradeDecision([upgradeOutcome EXCEPT !.stdout = out])) = upgradeResult)

\* C13 witness: the subcommand exited with success and an unrecognised stdout, and
\* the migrator has returned True
C13_Witness ==
  /\ pc = "upgrade_ret"
  /\ upgradeOutcome.kind = "exit"
  /\ upgradeOutcome.returncode = 0
  /\ upgradeOutcome.stdout = <<"INFO", "done">>
  /\ upgradeResult = "True"

\* C14: the GC thread is started at most once, only when MLFLOW_GC_ENABLED enables
\* it and only after start_mlflow_server has returned success; the GC thread is at
\* no position of its loop before that or when GC is disabled.
C14_GcOnlyAfterReady ==
  /\ Count(mlog, "gc_thread.start") <= 1
  /\ (gcpc # "off" =>
        /\ env.MLFLOW_GC_ENABLED = "true"
        /\ startResult = "True"
        /\ waitResult = "ready"
        /\ Before(mlog, "start_mlflow_server", "gc_thread.start"))
  /\ (InLog(mlog, "gc_thread.start") <=> gcpc # "off")

\* C14 witness: GC is enabled, the server is Ready and the GC thread is in a cycle
C14_Witness ==
  /\ env.MLFLOW_GC_ENABLED = "true"
  /\ startResult = "True"
  /\ gcpc = "cycle"

\* the positions of the GC thread inside its loop
GcLoopPcs == {"check", "run", "cycle", "wait"}

\* the GC thread can take its next step
GcCanStep == ENABLED (GcCheck \/ GcLaunch \/ GcCycleEnds \/ GcWait)

\* C15 as stated: once the stop event is set the loop begins no new cycle, and it
\* never sleeps an interval with the event set.
C15_NoCycleAfterStop ==
  /\ lateLaunches = 0
  /\ ~sleptAfterStop

\* C15 as amended: once the stop event is set the loop begins at most one more
\* cycle, the one whose loop test had passed before the event was set; it never
\* sleeps an interval with the event set, a cycle that was running goes on to the
\* wait, and while the process lives the thread is never blocked once the event is
\* set.
C15_AtMostOneCycleAfterStop ==
  /\ lateLaunches <= 1
  /\ ~sleptAfterStop
  /\ (gcStop /\ gcpc \in GcLoopPcs /\ pc # "exited" => GcCanStep)
  /\ (lateLaunches = 1 => gcStop /\ gcpc \in {"cycle", "wait", "check", "done"})

\* C15 witness: a cycle was launched after the event was set, it has finished, the
\* wait has returned and the loop has ended
C15_Witness ==
  /\ gcStop
  /\ lateLaunches = 1
  /\ gcpc = "done"

StrategyRank(x) == CASE x = "explicit" -> 1 [] x = "secret" -> 2 [] x = "adc" -> 3

\* C17: a resolution tries explicit-file, secret-store, ambient in that order; the
\* strategy that succeeds is the last one tried; a configured credentials file that
\* does not exist does not win and, with a project configured, the secret-store
\* strategy is tried next.
C17_StrategiesInOrder ==
  lastCall.op = "setup" =>
    /\ lastCall.tried # <<>> /\ lastCall.tried[1] = "explicit"
    /\ \A i, j \in 1..Len(lastCall.tried) :
         i < j => StrategyRank(lastCall.tried[i]) < StrategyRank(lastCall.tried[j])
    /\ (lastCall.won # "none" => lastCall.tried[Len(lastCall.tried)] = lastCall.won)
    /\ (lastCall.won = "explicit" =>
          lastCall.result = lastCall.configured /\ PathExists(lastCall.configured, disk))
    /\ (lastCall.configured # NoStr /\ ~PathExists(lastCall.configured, disk) =>
          /\ lastCall.won # "explicit"
          /\ (settings.GCP_PROJECT # "" =>
                Len(lastCall.tried) >= 2 /\ lastCall.tried[2] = "secret"))

\* C17 witness: the configured file does not exist and the secret store has given
\* the credential
C17_Witness ==
  /\ lastCall.op = "setup"
  /\ lastCall.configured # NoStr
  /\ ~PathExists(lastCall.configured, disk)
  /\ lastCall.won = "secret"

\* C18: when the payload is not JSON or the retrieval raises, the secret-store
\* strategy gives no credential, makes no temporary file, leaves
\* temp_credentials_file and GOOGLE_APPLICATION_CREDENTIALS of the environment as
\* they were, and the ambient strategy is tried next if it is enabled.
C18_SecretFailsSoft ==
  lastCall.op = "setup" /\ lastCall.secret \in {"bad_json", "raises"} =>
    /\ lastCall.after = lastCall.before
    /\ lastCall.won # "secret"
    /\ lastCall.result = NoStr
    /\ (settings.USE_GCP_INTERACTIVE_AUTH =>
          lastCall.tried = <<"explicit", "secret", "adc">>)

\* C18 witness: the payload was not JSON and the ambient strategy gave the
\* credential
C18_Witness ==
  /\ lastCall.op = "setup"
  /\ lastCall.secret = "bad_json"
  /\ lastCall.won = "adc"

\* the temporary files made for the manager that exist
TempFilesOnDisk == {k \in 1..mkstempCount : TempFile(k) \in disk}

\* C19: at most one temporary credential file made by the manager exists, and
\* every one that exists is the one recorded in temp_credentials_file.
C19_AtMostOneTempFile ==
  /\ Cardinality(TempFilesOnDisk) <= 1
  /\ \A k \in TempFilesOnDisk : temp_credentials_file = Some(TempFile(k))

\* C20: after a cleanup call the temporary file recorded before the call does not
\* exist and temp_credentials_file is None, whatever was the case before the call.
C20_CleanupClears ==
  lastCall.op = "cleanup" =>
    /\ temp_credentials_file = NoStr
    /\ (lastCall.before[1] # NoStr => lastCall.before[1][1] \notin disk)

(***************************************************************************)
(* Properties of the settings                                              *)
(***************************************************************************)
\* C21: if the folder location is a path segment of the bucket location,
\* artifact_root is the bucket location unchanged; and the join applied to its own
\* result with the same folder location gives that result again.
C21_JoinIdempotent ==
  /\ (Len(artifactRoots) >= 1
        /\ settings.MLFLOW_FOLDER_LOCATION \in Segments(settings.MLFLOW_BUCKET_LOCATION)
        => artifactRoots[1] = settings.MLFLOW_BUCKET_LOCATION)
  /\ (Len(artifactRoots) = 2 => artifactRoots[2] = artifactRoots[1])

\* explicit connection strings over whitespace, quotes and one other character
MaxConnLen == 3
ExplicitStrings ==
  UNION {[1..n -> {" ", "'", "\"", "u"}] : n \in 0..MaxConnLen}

\* uri is s without a prefix and a suffix made of whitespace and quote characters,
\* and no quote character is left at either end of it
StrippedFrom(uri, s) ==
  /\ \E i \in 1..(Len(s) + 1), j \in 0..Len(s) :
       /\ j >= i - 1
       /\ uri = SubSeq(s, i, j)
       /\ \A k \in (1..(i - 1)) \cup ((j + 1)..Len(s)) : s[k] \in Whitespace \cup QuoteChars
  /\ (uri # <<>> => uri[1] \notin QuoteChars /\ uri[Len(uri)] \notin QuoteChars)

\* the URI the settings resolve to for the explicit connection string s
ResolvedWith(s) ==
  backend_store_uri([settings EXCEPT !.MLFLOW_POSTGRES_CONNECTION_STRING = Some(s)])

\* s holds a character that is not whitespace
NonBlank(s) == \E k \in 1..Len(s) : s[k] \notin Whitespace

C23_ProbesUseLoopback ==
  \A c \in connects : c[2] \notin {"0.0.0.0", "::"}

\* C24 as stated: the termination handlers are registered only after
\* start_mlflow_server has returned success.
C24_HandlersArmedAfterReady ==
  /\ (handlersInstalled => startResult = "True")
  /\ (InLog(mlog, "setup_signal_handlers") =>
        Before(mlog, "start_mlflow_server", "setup_signal_handlers")
          /\ InLog(mlog, "start_mlflow_server"))

\* C24 as amended: the termination handlers are registered by the first call of
\* main, once, before the installation check, the migration and the start of the
\* server; the GC thread is started only after start_mlflow_server has returned
\* success, and only then does the main thread block on the exit of the child.
C24_HandlersArmedFirst ==
  /\ (pc # "main" => handlersInstalled /\ mlog # <<>> /\ mlog[1] = "setup_signal_handlers")
  /\ Count(mlog, "setup_signal_handlers") <= 1
  /\ (InLog(mlog, "gc_thread.start") =>
        Before(mlog, "start_mlflow_server", "gc_thread.start") /\ startResult = "True")
  /\ (pc = "main_wait" =>
        /\ startResult = "True"
        /\ (env.MLFLOW_GC_ENABLED = "true" => InLog(mlog, "gc_thread.start")))

\* C24 witness: the handlers are registered while the child is spawned and not yet
\* Ready
C24_Witness ==
  /\ handlersInstalled
  /\ pc = "wait_poll"
  /\ child = "running"
  /\ startResult = None

\* C25: the effective port is PORT when it is not null and MLFLOW_TRACKING_PORT
\* otherwise, and the pre-start probe, --port, the readiness probe, the tracking URI
\* of the GC loop and MLflowStorageManager.get_tracking_uri all carry it.
C25_OneEffectivePort ==
  portsUsed # NoPorts =>
    LET port == IF settings.PORT # NoStr THEN settings.PORT[1]
                ELSE settings.MLFLOW_TRACKING_PORT
    IN /\ portsUsed.precheck = port
       /\ portsUsed.child_arg = port
       /\ portsUsed.readiness = port
       /\ portsUsed.gc = port
       /\ portsUsed.storage = port

\* C26: the two readers are started together, right after the spawn and before the
\* readiness wait; a reader has closed its pipe at end-of-file only when the child
\* has exited, also after the child was sent terminate or kill; a reader that has
\* raised leaves the main thread where it was; and the exit of the process never
\* waits for a reader.
C26_ReadersDrainUntilEof ==
  /\ (pc \in {"wait_poll", "wait_probe", "wait_ret", "gc_start", "main_wait"} =>
        \A r \in ReaderNames : readers[r] # "none")
  /\ (\E r \in ReaderNames : readers[r] # "none") =>
        /\ spawnCount = 1 /\ mlflow_process # None
        /\ \A r \in ReaderNames : readers[r] # "none"
  /\ \A r \in ReaderNames : readers[r] = "closed" => child = "exited"
  /\ (\E r \in ReaderNames : readers[r] = "raised") /\ exitVia # None =>
        exitVia \in {"main_return", "handle_termination"}
          \/ (exitVia = "sys_exit" /\ startResult = "False")
  /\ (pc = "h_exit" => ENABLED HandlerExit)
  /\ (pc = "main_wait" /\ child = "exited" => ENABLED MainWaitReturns)

\* C26 witness: the child was sent terminate by the handler and is still running,
\* one reader is still reading and the other has raised, and the handler goes on
C26_Witness ==
  /\ sigs # <<>>
  /\ child = "running"
  /\ readers["stdout"] = "reading"
  /\ readers["stderr"] = "raised"
  /\ pc = "h_wait"

\* the markers of the levels, looked for in the stripped line in lower case
ErrorMarkers ==
  {<<"traceback (most recent call last):">>, <<" ", "error", " ">>, <<"[", "error">>,
   <<" ", "critical", " ">>, <<"fatal">>}
WarningMarkers == {<<" ", "warn", " ">>, <<"[", "warning">>}

HasErrorMarker(line) ==
  LET t == LowerText(StrStrip(line, Whitespace))
  IN (\E m \in ErrorMarkers : Contains(t, m)) \/ (t # <<>> /\ t[1] = "error")

HasWarningMarker(line) ==
  LET t == LowerText(StrStrip(line, Whitespace))
  IN (\E m \in WarningMarkers : Contains(t, m)) \/ (t # <<>> /\ t[1] = "warning")

C28_HandlerNeverLeavesChildRunning ==
  exitVia = "handle_termination" =>
    /\ (spawnCount > 0 /\ sigChild = "running" => HandlerSignals # {})
    /\ (child = "running" => sigs # <<>>)

\* the environment variable holds a temporary file made for the manager
EnvHoldsTempFile ==
  /\ env.GOOGLE_APPLICATION_CREDENTIALS # NoStr
  /\ \E k \in 1..mkstempCount : env.GOOGLE_APPLICATION_CREDENTIALS = Some(TempFile(k))

\* C29: after a setup_gcp_credentials call, a path of the secret-store strategy
\* held by GOOGLE_APPLICATION_CREDENTIALS of the environment names a file that
\* exists; and after a cleanup call that has deleted the temporary file, the
\* environment variable does not hold the path of the deleted file.
C29_EnvNeverPointsAtDeletedTempFile ==
  /\ (lastCall.op = "setup" /\ EnvHoldsTempFile =>
        PathExists(env.GOOGLE_APPLICATION_CREDENTIALS, disk))
  /\ (lastCall.op = "cleanup" /\ lastCall.before[2] /\ lastCall.after[1] = NoStr =>
        env.GOOGLE_APPLICATION_CREDENTIALS # lastCall.before[1])

====
